---- MODULE Spec2Model ----
(***************************************************************************)
(* A state-machine model of the recorder core of webcam-viewer-recorder:   *)
(* RecorderManager (src/recorder_manager/recorder_manager.py, the revision *)
(* app_window.py imports) together with AudioCaptureService, the encoder   *)
(* child processes, the frame pump threads, the audio capture threads and  *)
(* the file system they write to.                                          *)
(*                                                                         *)
(* Python statements that another thread can interleave with are separate  *)
(* actions: the position of each caller is pc[t].  None is <<>> for paths  *)
(* and 0 for process and thread handles.  A session is numbered when       *)
(* start_recording derives its paths; the encoder process, the audio       *)
(* thread and the frame pump that the same start_recording call creates    *)
(* carry that number.                                                      *)
(*                                                                         *)
(* Spec has the threads of the application: the Tk main thread, which      *)
(* calls start_recording (AppWindow.start_record), and a worker thread,    *)
(* which calls stop_recording (the worker of AppWindow.stop_record or of   *)
(* AppWindow.close); their calls overlap freely.  SpecSeq has a single     *)
(* caller, so that calls never overlap, while the pump, the audio thread   *)
(* and the encoder still run concurrently with each call.                  *)
(***************************************************************************)
EXTENDS Integers, Sequences, FiniteSets, TLC

\* ------------------------------------------------------------- bounds
\* Number of sessions (start_recording calls that get past the guard).
MaxSessions == 2
\* Last second of the wall clock (datetime.now() is formatted to the second).
MaxClock == 1
\* Number of audio blocks the callback accumulates.
MaxBlocks == 2

\* Number of camera handles start_preview opens.
MaxPreviews == 2
\* Number of frames the camera delivers.
MaxFrames == 2

\* Number of recordings started from the window.
MaxAppSessions == 1

\* Frames the paced pump writes, and the longest time (in ticks) one
\* iteration takes to get, adjust and write its frame.
MaxPaced == 8
MaxProcess == 4
\* frame_interval = 1.0 / fps_target, in ticks.
FrameInterval == 3

\* Threads that call the recorder, and what each calls.
Callers == {"ui", "stop_worker", "close_worker"}
Starters == {"ui"}
Stoppers == {"stop_worker"}
SeqCallers == {"ui"}
Sessions == 1..MaxSessions
OutputDirs == {<<"out">>}
\* Directory names that hold the texts stop_recording searches for.
AnyOutputDirs == {<<"out">>, <<"my_", "video_", "s">>, <<"clips", ".mp4">>}
ExitCodes == {0, 1}
\* Threads that call the video service: one that starts and stops the
\* preview, one that fetches the latest frame.
VideoCallers == {"preview_ctl", "consumer", "switch_camera", "switch_res",
                 "close_worker"}
VideoCtl == {"preview_ctl"}
VideoUsers == {"consumer"}
\* Worker threads that restart the preview while another one does.
VideoRacers == {"switch_camera", "switch_res"}
Handles == 1..MaxPreviews
Frames == 1..MaxFrames
\* Cameras and resolutions of the devices cache, callbacks handed in.
CameraIndexes == {0, 1}
Resolutions == {"1280x720", "640x480"}
Callbacks == {"cb_a", "cb_b"}
\* Worker threads of the window's handlers.
Switchers == {"switch_camera", "switch_res", "switch_mic"}
Workers == Switchers \cup {"close_worker"}
Microphones == {"mic_a", "mic_b"}
\* Slider positions: brightness 0.0..2.0 in quarters, contrast and
\* saturation 0.0..3.0 in halves (values a float holds exactly).
BrightnessQuarters == 0..8
ContrastHalves == 0..6
SaturationHalves == 0..6
\* Channel values of the gray pixels a captured frame is made of.
Pixels == {0, 10, 100, 200, 255}

VARIABLES
  \* RecorderManager
  recording, ffmpeg_proc, video_file, audio_file,
  \* AudioCaptureService
  a_recording, a_file_path, a_thread, a_frames,
  \* history: the blocks the callback has appended since the audio service
  \* was last started
  heard,
  \* encoder child processes, audio capture threads, frame pump threads
  procs, athr, pump,
  \* the frame size each pump read when it started
  psize,
  \* the file system (set of existing paths) and the wall clock
  files, now,
  \* sessions created so far and the paths start_recording derived for each
  nsess, sess,
  \* callers: position, operation, return value, exception, locals
  pc, op, ret, exc, loc,
  \* VideoCaptureService
  previewing, v_capture, v_callback, v_thread, frames_captured, last_frame,
  camera_index, resolution,
  \* camera handles, capture-loop threads, handles opened, frames read
  cams, vthr, nprev, nframes,
  \* callers of the video service: position, operation, argument, local
  \* handle, value returned by get_frame
  vpc, vop, varg, vloc, vret,
  \* history: frames stored as latest frame, callbacks invoked
  stored, called,
  \* adjustments: the recorder's three scalars (brightness in quarters,
  \* contrast and saturation in halves), a captured frame, the frame on its
  \* way to the preview label and the frame on its way to the encoder
  brightness, contrast, saturation, frame_in, shown, written,
  \* pacing of the pump: where the loop is, the time, the local last_time,
  \* the frames written, and (history) the time by which iterations have
  \* overrun the frame interval
  ppos, ptime, last_time, nwritten, late,
  \* AppWindow: the Start and Stop buttons, the window, the microphone the
  \* audio service is bound to, the worker threads of the handlers
  \* (position, argument)
  btn_start, btn_stop, destroyed, device_name, hpc, harg

rec_vars == <<recording, ffmpeg_proc, video_file, audio_file>>
aud_vars == <<a_recording, a_file_path, a_thread, a_frames, heard>>
thr_vars == <<procs, athr, pump, psize>>
env_vars == <<files, now>>
call_vars == <<pc, op, ret, exc, loc>>
core_vars == <<rec_vars, aud_vars, thr_vars, env_vars, nsess, sess, call_vars>>
vsvc_vars == <<previewing, v_capture, v_callback, v_thread, frames_captured,
               last_frame, camera_index, resolution>>
vthr_vars == <<cams, vthr, nprev, nframes>>
vcall_vars == <<vpc, vop, varg, vloc, vret>>
vhist_vars == <<stored, called>>
vid_vars == <<vsvc_vars, vthr_vars, vcall_vars, vhist_vars>>
\* What the recorder's code leaves alone, and what the video service's does.
pace_vars == <<ppos, ptime, last_time, nwritten, late>>
adj_vars == <<brightness, contrast, saturation, frame_in, shown, written,
              pace_vars>>
app_vars == <<btn_start, btn_stop, destroyed, device_name, hpc, harg>>
non_core_vars == <<vid_vars, adj_vars, app_vars>>
non_vid_vars == <<core_vars, adj_vars, app_vars>>
non_adj_vars == <<core_vars, vid_vars, app_vars>>
vars == <<core_vars, vid_vars, adj_vars, app_vars>>

None == <<>>

\* ------------------------------------------------------------- paths
\* A path is <<directory, name prefix, timestamp, extension>>, the directory
\* being the sequence of the pieces of text its name is made of.
VideoPath(d, ts) == <<d, "video_", ts, ".mp4">>
AudioPath(d, ts) == <<d, "audio_", ts, ".wav">>
FinalPath(d, ts) == <<d, "recording_", ts, ".mkv">>

\* str.replace(old, new) on the text parts of a path, every occurrence; the
\* timestamp is made of digits and "_" only and holds neither "video_" nor
\* ".mp4".
StrReplace(p, old, new) ==
  <<[i \in 1..Len(p[1]) |-> IF p[1][i] = old THEN new ELSE p[1][i]],
    IF p[2] = old THEN new ELSE p[2],
    p[3],
    IF p[4] = old THEN new ELSE p[4]>>

\* final_output of stop_recording.
MergeOutput(v) == StrReplace(StrReplace(v, "video_", "recording_"), ".mp4", ".mkv")

NoProc == [state |-> "none", stdin |-> FALSE, rc |-> -1]
NoLoc == [dir |-> <<>>, sid |-> 0, final |-> None, out |-> None,
          enc_rc |-> -1, mux_rc |-> -1, audio_data |-> <<>>]
NoSess == [video |-> None, audio |-> None, final |-> None, size |-> "none"]

CoreInit ==
  /\ recording = FALSE
  /\ ffmpeg_proc = 0
  /\ video_file = None
  /\ audio_file = None
  /\ a_recording = FALSE
  /\ a_file_path = None
  /\ a_thread = 0
  /\ a_frames = <<>>
  /\ heard = <<>>
  /\ procs = [s \in Sessions |-> NoProc]
  /\ athr = [s \in Sessions |-> "none"]
  /\ pump = [s \in Sessions |-> "none"]
  /\ psize = [s \in Sessions |-> "none"]
  /\ files = {}
  /\ now = 0
  /\ nsess = 0
  /\ sess = [s \in Sessions |-> NoSess]
  /\ pc = [t \in Callers |-> "idle"]
  /\ op = [t \in Callers |-> "none"]
  /\ ret = [t \in Callers |-> None]
  /\ exc = [t \in Callers |-> "none"]
  /\ loc = [t \in Callers |-> NoLoc]

NoCam == [state |-> "none", index |-> 0, res |-> "none"]
\* A capture-loop thread: where it is, and its locals frame and ret (ret is
\* False from a read that gave no frame until the loop tests its condition).
NoVThread == [state |-> "none", frame |-> 0, ret |-> TRUE]

\* VideoCaptureService.__init__ (camera 0, 1280x720 by default).
VideoInit ==
  /\ previewing = FALSE
  /\ v_capture = 0
  /\ v_callback = "none"
  /\ v_thread = 0
  /\ frames_captured = 0
  /\ last_frame = 0
  /\ camera_index = 0
  /\ resolution = "1280x720"
  /\ cams = [h \in Handles |-> NoCam]
  /\ vthr = [h \in Handles |-> NoVThread]
  /\ nprev = 0
  /\ nframes = 0
  /\ vpc = [t \in VideoCallers |-> "idle"]
  /\ vop = [t \in VideoCallers |-> "none"]
  /\ varg = [t \in VideoCallers |-> "none"]
  /\ vloc = [t \in VideoCallers |-> 0]
  /\ vret = [t \in VideoCallers |-> 0]
  /\ stored = <<>>
  /\ called = <<>>

\* A frame on one of the two paths: where it is, its pixel value and the
\* stages it has gone through.
NoFrame == [pos |-> "none", val |-> 0, stages |-> <<>>]

\* No pump is pacing itself.
PaceInit ==
  /\ ppos = "none"
  /\ ptime = 0
  /\ last_time = 0
  /\ nwritten = 0
  /\ late = 0

\* RecorderManager.__init__: brightness, contrast and saturation 1.0.
AdjustInit ==
  /\ PaceInit
  /\ brightness = 4
  /\ contrast = 2
  /\ saturation = 2
  /\ frame_in = 0
  /\ shown = NoFrame
  /\ written = NoFrame

\* The argument of a handler's worker, and whether a session was being
\* recorded or finalized when the handler was invoked.
NoArg == [val |-> "none", rec |-> FALSE]

\* AppWindow._build_ui: Start enabled, Stop disabled; the first microphone.
AppInit ==
  /\ btn_start = "normal"
  /\ btn_stop = "disabled"
  /\ destroyed = FALSE
  /\ device_name = "mic_a"
  /\ hpc = [w \in Workers |-> "idle"]
  /\ harg = [w \in Workers |-> NoArg]

Init ==
  /\ CoreInit
  /\ VideoInit
  /\ AdjustInit
  /\ AppInit

\* AppWindow.__init__ has run: the preview was started on the first camera,
\* which opened or did not.
InitApp ==
  /\ CoreInit
  /\ AdjustInit
  /\ AppInit
  /\ previewing = TRUE
  /\ v_capture = 1
  /\ v_callback = "cb_a"
  /\ v_thread = 1
  /\ frames_captured = 0
  /\ last_frame = 0
  /\ camera_index = 0
  /\ resolution = "1280x720"
  /\ \E st \in {"opened", "failed"} :
       cams = [h \in Handles |->
                 IF h = 1 THEN [state |-> st, index |-> 0, res |-> "1280x720"]
                 ELSE NoCam]
  /\ vthr = [h \in Handles |->
               IF h = 1 THEN [state |-> "cond", frame |-> 0, ret |-> TRUE] ELSE NoVThread]
  /\ nprev = 1
  /\ nframes = 0
  /\ vpc = [t \in VideoCallers |-> "idle"]
  /\ vop = [t \in VideoCallers |-> "none"]
  /\ varg = [t \in VideoCallers |-> "none"]
  /\ vloc = [t \in VideoCallers |-> 0]
  /\ vret = [t \in VideoCallers |-> 0]
  /\ stored = <<>>
  /\ called = <<>>

\* The sliders are anywhere and a frame has been captured.
InitAdjust ==
  /\ CoreInit
  /\ PaceInit
  /\ VideoInit
  /\ brightness \in BrightnessQuarters
  /\ contrast \in ContrastHalves
  /\ saturation \in SaturationHalves
  /\ frame_in \in Pixels
  /\ shown = [pos |-> "frame", val |-> frame_in, stages |-> <<>>]
  /\ written = [pos |-> "frame", val |-> frame_in, stages |-> <<>>]
  /\ AppInit

\* ------------------------------------------------------------- callers
\* A call that raises or returns: the caller holds the outcome ("done")
\* until it goes on (Resume).
Raise(t, e) ==
  /\ pc' = [pc EXCEPT ![t] = "done"]
  /\ exc' = [exc EXCEPT ![t] = e]
  /\ UNCHANGED <<op, ret>>

Return(t, v) ==
  /\ pc' = [pc EXCEPT ![t] = "done"]
  /\ ret' = [ret EXCEPT ![t] = v]
  /\ UNCHANGED <<op, exc>>

Goto(t, l) ==
  /\ pc' = [pc EXCEPT ![t] = l]
  /\ UNCHANGED <<op, ret, exc>>

\* Callers that hold a session number not yet taken from nsess.
Starting == {u \in Callers : pc[u] \in {"s_check", "s_paths"}}

\* Thread t enters start_recording(d).
EnterStart(t, d) ==
  /\ pc[t] = "idle"
  /\ nsess + Cardinality(Starting) < MaxSessions
  /\ pc' = [pc EXCEPT ![t] = "s_check"]
  /\ op' = [op EXCEPT ![t] = "start"]
  /\ loc' = [loc EXCEPT ![t] = [NoLoc EXCEPT !.dir = d]]
  /\ UNCHANGED <<rec_vars, aud_vars, thr_vars, env_vars, nsess, sess, ret, exc>>

\* Thread t enters stop_recording().
EnterStop(t) ==
  /\ pc[t] = "idle"
  /\ pc' = [pc EXCEPT ![t] = "p_check"]
  /\ op' = [op EXCEPT ![t] = "stop"]
  /\ UNCHANGED <<rec_vars, aud_vars, thr_vars, env_vars, nsess, sess, ret, exc,
                 loc>>

\* Thread t is back from its call and has dealt with the outcome.
Leave(t) ==
  /\ pc[t] = "done"
  /\ pc' = [pc EXCEPT ![t] = "idle"]
  /\ op' = [op EXCEPT ![t] = "none"]
  /\ ret' = [ret EXCEPT ![t] = None]
  /\ exc' = [exc EXCEPT ![t] = "none"]
  /\ loc' = [loc EXCEPT ![t] = NoLoc]
  /\ UNCHANGED <<rec_vars, aud_vars, thr_vars, env_vars, nsess, sess>>

\* The caller invokes start_recording(d).
CallStart(t, d) ==
  /\ EnterStart(t, d)
  /\ UNCHANGED non_core_vars

\* The caller invokes stop_recording().
CallStop(t) ==
  /\ EnterStop(t)
  /\ UNCHANGED non_core_vars

\* The caller has seen the outcome of its call.
Resume(t) ==
  /\ Leave(t)
  /\ UNCHANGED non_core_vars

\* ------------------------------------------------------------- start_recording
\* Faulty variant of the guard: start_recording never refuses.
AlreadyRecordingNoGuard == FALSE

\* if self.recording: raise RuntimeError("Already recording.")
AlreadyRecording == recording

StartCheck(t) ==
  /\ pc[t] = "s_check"
  /\ IF AlreadyRecording
       THEN Raise(t, "AlreadyRecording")
       ELSE Goto(t, "s_paths")
  /\ UNCHANGED <<rec_vars, aud_vars, thr_vars, env_vars, nsess, sess, loc>>
  /\ UNCHANGED non_core_vars

\* mkdir, the timestamp (datetime.now(): the clock has not gone back since
\* it was last read), the two intermediate paths, final_output and the
\* encoder's command line.
StartPaths(t) ==
  /\ pc[t] = "s_paths"
  /\ \E ts \in now..MaxClock :
       LET d == loc[t].dir
           s == nsess + 1
       IN /\ now' = ts
          /\ video_file' = VideoPath(d, ts)
          /\ audio_file' = AudioPath(d, ts)
          /\ nsess' = s
          /\ sess' = [sess EXCEPT ![s] = [video |-> VideoPath(d, ts),
                                          audio |-> AudioPath(d, ts),
                                          final |-> FinalPath(d, ts),
                                          size |-> resolution]]
          /\ loc' = [loc EXCEPT ![t] = [@ EXCEPT !.sid = s,
                                                 !.final = FinalPath(d, ts),
                                                 !.out = VideoPath(d, ts)]]
  /\ Goto(t, "s_spawn")
  /\ UNCHANGED <<recording, ffmpeg_proc, aud_vars, thr_vars, files>>
  /\ UNCHANGED non_core_vars

\* subprocess.Popen(ffmpeg_cmd, stdin=PIPE): the encoder starts and opens its
\* output file, or the executable cannot be launched and Popen raises.
\* Faulty variant: the failure of Popen is swallowed and start_recording
\* carries on.
PopenFailsSwallowed(t) == Goto(t, "s_audio")

\* Popen raises (FileNotFoundError, OSError); start_recording has no handler.
PopenFails(t) == Raise(t, "SpawnError")

StartSpawn(t) ==
  /\ pc[t] = "s_spawn"
  /\ \/ /\ PopenFails(t)
        /\ UNCHANGED <<ffmpeg_proc, procs, files>>
     \/ /\ ffmpeg_proc' = loc[t].sid
        /\ procs' = [procs EXCEPT ![loc[t].sid] =
                       [state |-> "running", stdin |-> TRUE, rc |-> -1]]
        /\ files' = files \cup {loc[t].out}
        /\ Goto(t, "s_audio")
  /\ UNCHANGED <<recording, video_file, audio_file, aud_vars, athr, pump,
                 psize,
                 now, nsess, sess, loc>>
  /\ UNCHANGED non_core_vars

\* self.audio_service.start_recording(file_path=self._audio_file)
StartAudio(t) ==
  /\ pc[t] = "s_audio"
  /\ IF audio_file = None
       THEN /\ Raise(t, "TypeError")
            /\ UNCHANGED <<aud_vars, athr>>
       ELSE IF a_recording
         THEN /\ Raise(t, "AudioAlreadyRecording")
              /\ UNCHANGED <<aud_vars, athr>>
         ELSE /\ a_file_path' = audio_file
              /\ a_frames' = <<>>
              /\ heard' = <<>>
              /\ a_recording' = TRUE
              /\ a_thread' = loc[t].sid
              /\ athr' = [athr EXCEPT ![loc[t].sid] = "opening"]
              /\ Goto(t, "s_flag")
  /\ UNCHANGED <<rec_vars, procs, pump, psize, env_vars, nsess, sess, loc>>
  /\ UNCHANGED non_core_vars

\* self.recording = True; Thread(target=self._record_loop).start(); return
StartFlag(t) ==
  /\ pc[t] = "s_flag"
  /\ recording' = TRUE
  /\ pump' = [pump EXCEPT ![loc[t].sid] = "cond"]
  /\ Return(t, loc[t].final)
  /\ UNCHANGED <<ffmpeg_proc, video_file, audio_file, aud_vars, procs, athr,
                 psize, env_vars, nsess, sess, loc>>
  /\ UNCHANGED non_core_vars

\* ------------------------------------------------------------- stop_recording
\* Faulty variant of the guard: stop_recording always finalizes.
NotRecordingNoGuard == FALSE

\* if not self.recording: return None
NotRecording == ~recording

StopCheck(t) ==
  /\ pc[t] = "p_check"
  /\ IF NotRecording
       THEN Return(t, None)
       ELSE Goto(t, "p_flag")
  /\ UNCHANGED <<rec_vars, aud_vars, thr_vars, env_vars, nsess, sess, loc>>
  /\ UNCHANGED non_core_vars

\* Faulty variant: stopping the recording also takes the preview flag down.
PreviewTakenDown ==
  /\ previewing' = FALSE
  /\ UNCHANGED <<v_capture, v_callback, v_thread>>

\* stop_recording calls nothing on self.video_service: the preview flag,
\* the camera handle, the capture thread and the callback stay as they are.
PreviewKept == UNCHANGED <<previewing, v_capture, v_callback, v_thread>>

\* self.recording = False
StopFlag(t) ==
  /\ pc[t] = "p_flag"
  /\ recording' = FALSE
  /\ Goto(t, "p_audio")
  /\ UNCHANGED <<ffmpeg_proc, video_file, audio_file, aud_vars, thr_vars,
                 env_vars, nsess, sess, loc>>
  /\ PreviewKept
  /\ UNCHANGED <<frames_captured, last_frame, camera_index, resolution,
                 vthr_vars, vcall_vars, vhist_vars, adj_vars, app_vars>>

\* AudioCaptureService.stop_recording: if not self.recording: return;
\* self.recording = False
StopAudio(t) ==
  /\ pc[t] = "p_audio"
  /\ IF ~a_recording
       THEN /\ Goto(t, "p_enc")
            /\ UNCHANGED a_recording
       ELSE /\ a_recording' = FALSE
            /\ Goto(t, "p_join")
  /\ UNCHANGED <<rec_vars, a_file_path, a_thread, a_frames, heard, thr_vars,
                 env_vars, nsess, sess, loc>>
  /\ UNCHANGED non_core_vars

\* Faulty variant: the capture thread is not waited for.
JoinedAtOnce(s) == TRUE

\* Thread.join() returns once the thread has terminated.
Joined(s) == athr[s] \in {"dead", "failed", "joined"}

\* if self._thread: self._thread.join(); self._thread = None
StopAudioJoin(t) ==
  /\ pc[t] = "p_join"
  /\ a_thread # 0 => Joined(a_thread)
  /\ a_thread' = 0
  /\ athr' = IF a_thread # 0 /\ athr[a_thread] \in {"dead", "failed"}
               THEN [athr EXCEPT ![a_thread] = "joined"] ELSE athr
  /\ Goto(t, "p_write")
  /\ UNCHANGED <<rec_vars, a_recording, a_file_path, a_frames, heard, procs,
                 pump, psize, env_vars, nsess, sess, loc>>
  /\ UNCHANGED non_core_vars

\* Faulty variant: the failure of the write is swallowed and stop_recording
\* carries on with the encoder.
AudioWriteFailsSwallowed(t) == Goto(t, "p_enc")

\* wave.open or writeframes raises (OSError); neither stop_recording has a
\* handler.
AudioWriteFails(t) == Raise(t, "WriteError")

\* np.concatenate(self._audio_frames, axis=0): the rows of the blocks, block
\* after block in list order.
RECURSIVE Concatenate(_)
Concatenate(blocks) ==
  IF blocks = <<>> THEN <<>>
  ELSE Head(blocks) \o Concatenate(Tail(blocks))

\* if self._file_path and self._audio_frames: concatenate and write the WAV
\* file (wave.open or writeframes may raise); then clear the blocks and path.
\* loc[t].audio_data holds the rows handed to writeframes.
StopAudioWrite(t) ==
  /\ pc[t] = "p_write"
  /\ \/ /\ a_file_path # None /\ a_frames # <<>>
        /\ AudioWriteFails(t)
        /\ UNCHANGED <<a_frames, a_file_path, files, loc>>
     \/ /\ IF a_file_path # None /\ a_frames # <<>>
             THEN /\ files' = files \cup {a_file_path}
                  /\ loc' = [loc EXCEPT ![t].audio_data =
                               Concatenate(a_frames)]
             ELSE UNCHANGED <<files, loc>>
        /\ a_frames' = <<>>
        /\ a_file_path' = None
        /\ Goto(t, "p_enc")
  /\ UNCHANGED <<rec_vars, a_recording, a_thread, heard, thr_vars, now,
                 nsess, sess>>
  /\ UNCHANGED non_core_vars

\* if self._ffmpeg_proc: if self._ffmpeg_proc.stdin: stdin.close()
StopEncClose(t) ==
  /\ pc[t] = "p_enc"
  /\ IF ffmpeg_proc = 0
       THEN /\ Goto(t, "p_merge")
            /\ UNCHANGED procs
       ELSE /\ procs' = [procs EXCEPT ![ffmpeg_proc].stdin = FALSE]
            /\ Goto(t, "p_wait")
  /\ UNCHANGED <<rec_vars, aud_vars, athr, pump, psize, env_vars, nsess, sess,
                 loc>>
  /\ UNCHANGED non_core_vars

\* Faulty variant: the exit of the encoder is not awaited.
WaitReturnsAtOnce(p) == TRUE

\* Popen.wait() returns once the child has exited.
WaitReturns(p) == procs[p].state = "exited"

\* self._ffmpeg_proc.wait(); self._ffmpeg_proc = None
\* (the exit code wait() returns is kept in loc[t].enc_rc; the code drops it)
StopEncWait(t) ==
  /\ pc[t] = "p_wait"
  /\ IF ffmpeg_proc = 0
       THEN /\ Raise(t, "AttributeError")
            /\ UNCHANGED <<ffmpeg_proc, loc>>
       ELSE /\ WaitReturns(ffmpeg_proc)
            /\ loc' = [loc EXCEPT ![t].enc_rc = procs[ffmpeg_proc].rc]
            /\ ffmpeg_proc' = 0
            /\ Goto(t, "p_merge")
  /\ UNCHANGED <<recording, video_file, audio_file, aud_vars, thr_vars,
                 env_vars, nsess, sess>>
  /\ UNCHANGED non_core_vars

\* Faulty variant: check=False, the muxer's exit code is not looked at.
MergeFailsUnchecked(rc) == FALSE

\* subprocess.run(merge_cmd, check=True) raises on a nonzero exit code.
MergeFails(rc) == rc # 0

\* if self._video_file and self._audio_file: run the muxer
StopMerge(t) ==
  /\ pc[t] = "p_merge"
  /\ IF video_file # None /\ audio_file # None
       THEN \E rc \in ExitCodes :
              /\ loc' = [loc EXCEPT ![t] = [@ EXCEPT !.mux_rc = rc,
                                              !.final = MergeOutput(video_file)]]
              /\ IF MergeFails(rc)
                   THEN /\ Raise(t, "MergeError")
                        /\ UNCHANGED files
                   ELSE /\ files' = files \cup {MergeOutput(video_file)}
                        /\ Goto(t, "p_unlink")
       ELSE /\ Return(t, None)
            /\ UNCHANGED <<loc, files>>
  /\ UNCHANGED <<rec_vars, aud_vars, thr_vars, now, nsess, sess>>
  /\ UNCHANGED non_core_vars

\* Faulty variant: the audio intermediate is not removed.
UnlinkedVideoOnly(v, a) == {v}

\* The files Path(...).unlink(missing_ok=True) removes after the merge.
Unlinked(v, a) == {v, a}

\* unlink both intermediates, clear both paths, return final_output
StopUnlink(t) ==
  /\ pc[t] = "p_unlink"
  /\ IF video_file = None \/ audio_file = None
       THEN /\ Raise(t, "TypeError")
            /\ UNCHANGED <<video_file, audio_file, files>>
       ELSE /\ files' = files \ Unlinked(video_file, audio_file)
            /\ video_file' = None
            /\ audio_file' = None
            /\ Return(t, loc[t].final)
  /\ UNCHANGED <<recording, ffmpeg_proc, aud_vars, thr_vars, now,
                 nsess, sess, loc>>
  /\ UNCHANGED non_core_vars

\* ------------------------------------------------------------- frame pump
\* RecorderManager._record_loop, one thread per session s.
\* width, height = self.video_service.resolution, read once when the thread
\* starts (psize[s] is "none" until then, and again when the thread is gone).
PumpSize(s) == IF psize[s] = "none" THEN resolution ELSE psize[s]

\* while self.recording and self._ffmpeg_proc and self._ffmpeg_proc.stdin:
\*     frame = self.video_service.get_frame()
\*     if frame is None: sleep; continue      (no frame stored yet)
\*     resize to (width, height), expand channels, adjust
PumpCond(s) ==
  /\ pump[s] = "cond"
  /\ IF recording /\ ffmpeg_proc # 0
       THEN /\ \E frame \in {"None", "frame"} :
                 pump' = [pump EXCEPT ![s] =
                            IF frame = "None" THEN "cond" ELSE "write"]
            /\ psize' = [psize EXCEPT ![s] = PumpSize(s)]
       ELSE /\ pump' = [pump EXCEPT ![s] = "dead"]
            /\ psize' = [psize EXCEPT ![s] = "none"]
  /\ UNCHANGED <<rec_vars, aud_vars, procs, athr, env_vars, nsess, sess,
                 call_vars>>
  /\ UNCHANGED non_core_vars

\* self._ffmpeg_proc.stdin.write(...): AttributeError when the handle is
\* None (uncaught: the thread dies), ValueError on a closed pipe and
\* BrokenPipeError on a dead encoder (both caught: break); otherwise the
\* frame is written and the loop sleeps for the rest of the frame interval.
PumpWrite(s) ==
  /\ pump[s] = "write"
  /\ pump' = [pump EXCEPT ![s] =
                IF ffmpeg_proc = 0 THEN "crashed"
                ELSE IF ~procs[ffmpeg_proc].stdin THEN "dead"
                ELSE IF procs[ffmpeg_proc].state = "exited" THEN "dead"
                ELSE "cond"]
  /\ psize' = [psize EXCEPT ![s] = IF pump'[s] = "cond" THEN @ ELSE "none"]
  /\ UNCHANGED <<rec_vars, aud_vars, procs, athr, env_vars, nsess, sess,
                 call_vars>>
  /\ UNCHANGED non_core_vars

PumpAlive(s) == pump[s] \in {"cond", "write"}

\* ------------------------------------------------------------- audio thread
\* AudioCaptureService._record_loop, one thread per session s.
\* with sd.InputStream(...): the stream opens, or raises and the thread dies.
AudioOpen(s) ==
  /\ athr[s] = "opening"
  /\ \E r \in {"running", "failed"} : athr' = [athr EXCEPT ![s] = r]
  /\ UNCHANGED <<rec_vars, aud_vars, procs, pump, psize, env_vars, nsess, sess,
                 call_vars>>
  /\ UNCHANGED non_core_vars

\* The block the stream of session s hands to the callback: an array of one
\* row, which tells the session and the block's number among those appended.
Block(s) == <<[sess |-> s, seq |-> Len(heard) + 1]>>

\* callback: if self.recording:   (when it is not, indata is dropped)
AudioCallbackCheck(s) ==
  /\ athr[s] = "running"
  /\ a_recording
  /\ Len(a_frames) < MaxBlocks
  /\ athr' = [athr EXCEPT ![s] = "appending"]
  /\ UNCHANGED <<rec_vars, aud_vars, procs, pump, psize, env_vars, nsess, sess,
                 call_vars>>
  /\ UNCHANGED non_core_vars

\* self._audio_frames.append(indata.copy())
AudioCallbackAppend(s) ==
  /\ athr[s] = "appending"
  /\ a_frames' = Append(a_frames, Block(s))
  /\ heard' = Append(heard, Block(s))
  /\ athr' = [athr EXCEPT ![s] = "running"]
  /\ UNCHANGED <<rec_vars, a_recording, a_file_path, a_thread, procs, pump,
                 psize,
                 env_vars, nsess, sess, call_vars>>
  /\ UNCHANGED non_core_vars

\* while self.recording: sd.sleep(100)
AudioLoopExit(s) ==
  /\ athr[s] = "running"
  /\ ~a_recording
  /\ athr' = [athr EXCEPT ![s] = "dead"]
  /\ UNCHANGED <<rec_vars, aud_vars, procs, pump, psize, env_vars, nsess, sess,
                 call_vars>>
  /\ UNCHANGED non_core_vars

\* ------------------------------------------------------------- environment
\* The encoder exits once it reads end-of-stream on its closed input pipe.
EncoderExit(p) ==
  /\ procs[p].state = "running"
  /\ ~procs[p].stdin
  /\ \E rc \in ExitCodes :
       procs' = [procs EXCEPT ![p] = [@ EXCEPT !.state = "exited", !.rc = rc]]
  /\ UNCHANGED <<rec_vars, aud_vars, athr, pump, psize, env_vars, nsess, sess,
                 call_vars>>
  /\ UNCHANGED non_core_vars

\* The encoder dies mid-stream, its pipe still open on the recorder's side.
EncoderCrash(p) ==
  /\ procs[p].state = "running"
  /\ procs[p].stdin
  /\ procs' = [procs EXCEPT ![p] = [@ EXCEPT !.state = "exited", !.rc = 1]]
  /\ UNCHANGED <<rec_vars, aud_vars, athr, pump, psize, env_vars, nsess, sess,
                 call_vars>>
  /\ UNCHANGED non_core_vars

\* ------------------------------------------------------------- video service
VGoto(t, l) ==
  /\ vpc' = [vpc EXCEPT ![t] = l]
  /\ UNCHANGED <<vop, varg, vret>>

\* Callers that will open a camera handle not yet counted in nprev.
VStarting == {u \in VideoCallers : vpc[u] \in {"v_check", "v_init", "v_open"}}

\* Thread t enters start_preview(cb).
VEnterStart(t, cb) ==
  /\ vpc[t] = "idle"
  /\ nprev + Cardinality(VStarting) < MaxPreviews
  /\ vpc' = [vpc EXCEPT ![t] = "v_check"]
  /\ vop' = [vop EXCEPT ![t] = "start"]
  /\ varg' = [varg EXCEPT ![t] = cb]
  /\ UNCHANGED <<vsvc_vars, vthr_vars, vloc, vret, vhist_vars>>

\* Thread t enters stop_preview().
VEnterStop(t) ==
  /\ vpc[t] = "idle"
  /\ vpc' = [vpc EXCEPT ![t] = "x_flag"]
  /\ vop' = [vop EXCEPT ![t] = "stop"]
  /\ UNCHANGED <<vsvc_vars, vthr_vars, varg, vloc, vret, vhist_vars>>

\* Thread t is back from its call to the video service.
VLeave(t) ==
  /\ vpc[t] = "done"
  /\ vpc' = [vpc EXCEPT ![t] = "idle"]
  /\ vop' = [vop EXCEPT ![t] = "none"]
  /\ varg' = [varg EXCEPT ![t] = "none"]
  /\ vloc' = [vloc EXCEPT ![t] = 0]
  /\ vret' = [vret EXCEPT ![t] = 0]
  /\ UNCHANGED <<vsvc_vars, vthr_vars, vhist_vars>>

\* The caller invokes start_preview(cb).
VCallStart(t, cb) ==
  /\ VEnterStart(t, cb)
  /\ UNCHANGED non_vid_vars

\* The caller invokes stop_preview().
VCallStop(t) ==
  /\ VEnterStop(t)
  /\ UNCHANGED non_vid_vars

\* The caller has seen the outcome of its call.
VResume(t) ==
  /\ VLeave(t)
  /\ UNCHANGED non_vid_vars

\* Faulty variant of the guard: start_preview always starts a preview.
AlreadyPreviewingNoGuard == FALSE

\* if self.previewing: return
AlreadyPreviewing == previewing

VStartCheck(t) ==
  /\ vpc[t] = "v_check"
  /\ IF AlreadyPreviewing THEN VGoto(t, "done") ELSE VGoto(t, "v_init")
  /\ UNCHANGED <<vsvc_vars, vthr_vars, vloc, vhist_vars>>
  /\ UNCHANGED non_vid_vars

\* self._callback = callback; self.previewing = True;
\* self.frames_captured = 0; self.start_time = ...
VStartInit(t) ==
  /\ vpc[t] = "v_init"
  /\ v_callback' = varg[t]
  /\ previewing' = TRUE
  /\ frames_captured' = 0
  /\ VGoto(t, "v_open")
  /\ UNCHANGED <<v_capture, v_thread, last_frame, camera_index, resolution,
                 vthr_vars, vloc, vhist_vars>>
  /\ UNCHANGED non_vid_vars

\* self._capture = cv2.VideoCapture(self.camera_index, CAP_DSHOW) and the
\* three set() calls: the constructor does not raise when the camera cannot
\* be opened, the handle then answers isOpened() with False.
VStartOpen(t) ==
  /\ vpc[t] = "v_open"
  /\ \E st \in {"opened", "failed"} :
       cams' = [cams EXCEPT ![nprev + 1] =
                  [state |-> st, index |-> camera_index, res |-> resolution]]
  /\ nprev' = nprev + 1
  /\ v_capture' = nprev + 1
  /\ vloc' = [vloc EXCEPT ![t] = nprev + 1]
  /\ VGoto(t, "v_thread")
  /\ UNCHANGED <<previewing, v_callback, v_thread, frames_captured,
                 last_frame, camera_index, resolution, vthr, nframes,
                 vhist_vars>>
  /\ UNCHANGED non_vid_vars

\* self._thread = Thread(target=self._update_loop); self._thread.start()
VStartThread(t) ==
  /\ vpc[t] = "v_thread"
  /\ v_thread' = vloc[t]
  /\ vthr' = [vthr EXCEPT ![vloc[t]] = [state |-> "cond", frame |-> 0, ret |-> TRUE]]
  /\ VGoto(t, "done")
  /\ UNCHANGED <<previewing, v_capture, v_callback, frames_captured,
                 last_frame, camera_index, resolution, cams, nprev, nframes,
                 vloc, vhist_vars>>
  /\ UNCHANGED non_vid_vars

\* stop_preview: self.previewing = False
VStopFlag(t) ==
  /\ vpc[t] = "x_flag"
  /\ previewing' = FALSE
  /\ VGoto(t, "x_thread")
  /\ UNCHANGED <<v_capture, v_callback, v_thread, frames_captured,
                 last_frame, camera_index, resolution, vthr_vars, vloc,
                 vhist_vars>>
  /\ UNCHANGED non_vid_vars

\* if self._thread: (the thread object join() is called on)
VStopThread(t) ==
  /\ vpc[t] = "x_thread"
  /\ vloc' = [vloc EXCEPT ![t] = v_thread]
  /\ IF v_thread = 0 THEN VGoto(t, "x_release") ELSE VGoto(t, "x_join")
  /\ UNCHANGED <<vsvc_vars, vthr_vars, vhist_vars>>
  /\ UNCHANGED non_vid_vars

\* Faulty variant: the capture thread is not waited for.
VJoinedAtOnce(k) == TRUE

\* Thread.join() returns once the capture thread has terminated.
VJoined(k) == vthr[k].state \in {"dead", "crashed"}

\* self._thread.join(); self._thread = None
VStopJoin(t) ==
  /\ vpc[t] = "x_join"
  /\ VJoined(vloc[t])
  /\ v_thread' = 0
  /\ VGoto(t, "x_release")
  /\ UNCHANGED <<previewing, v_capture, v_callback, frames_captured,
                 last_frame, camera_index, resolution, vthr_vars, vloc,
                 vhist_vars>>
  /\ UNCHANGED non_vid_vars

\* if self._capture: self._capture.release(); self._capture = None
VStopRelease(t) ==
  /\ vpc[t] = "x_release"
  /\ IF v_capture = 0
       THEN UNCHANGED <<v_capture, cams>>
       ELSE /\ cams' = [cams EXCEPT ![v_capture].state = "released"]
            /\ v_capture' = 0
  /\ VGoto(t, "done")
  /\ UNCHANGED <<previewing, v_callback, v_thread, frames_captured,
                 last_frame, camera_index, resolution, vthr, nprev, nframes,
                 vloc, vhist_vars>>
  /\ UNCHANGED non_vid_vars

\* get_frame: with self._lock: return a copy of self._last_frame, or None.
VGetFrame(t) ==
  /\ vpc[t] = "idle"
  /\ vpc' = [vpc EXCEPT ![t] = "done"]
  /\ vop' = [vop EXCEPT ![t] = "get"]
  /\ vret' = [vret EXCEPT ![t] = last_frame]
  /\ UNCHANGED <<vsvc_vars, vthr_vars, varg, vloc, vhist_vars>>
  /\ UNCHANGED non_vid_vars

\* ------------------------------------------------------------- capture loop
\* VideoCaptureService._update_loop, one thread per start_preview call k.
\* while self.previewing and self._capture is not None
\*       and self._capture.isOpened():
VLoopCond(k) ==
  /\ vthr[k].state = "cond"
  /\ vthr' = [vthr EXCEPT ![k] =
                [state |-> IF previewing /\ v_capture # 0
                                /\ cams[v_capture].state = "opened"
                             THEN "read" ELSE "dead",
                 frame |-> 0, ret |-> TRUE]]
  /\ UNCHANGED <<vsvc_vars, cams, nprev, nframes, vcall_vars, vhist_vars>>
  /\ UNCHANGED non_vid_vars

\* Faulty variant: a read that gives no frame ends the loop.
ReadFailedGiveUp == [state |-> "dead", frame |-> 0, ret |-> FALSE]

\* if not ret: continue
ReadFailed == [state |-> "cond", frame |-> 0, ret |-> FALSE]

\* ret, frame = self._capture.read(); if not ret: continue
\* (AttributeError when the handle is None; a released handle and a
\* transient failure both answer ret = False).
VLoopRead(k) ==
  /\ vthr[k].state = "read"
  /\ IF v_capture = 0
       THEN /\ vthr' = [vthr EXCEPT ![k].state = "crashed"]
            /\ UNCHANGED nframes
       ELSE IF cams[v_capture].state # "opened"
         THEN /\ vthr' = [vthr EXCEPT ![k] = ReadFailed]
              /\ UNCHANGED nframes
         ELSE \/ /\ vthr' = [vthr EXCEPT ![k] = ReadFailed]
                 /\ UNCHANGED nframes
              \/ /\ nframes < MaxFrames
                 /\ nframes' = nframes + 1
                 /\ vthr' = [vthr EXCEPT ![k] =
                               [state |-> "deliver", frame |-> nframes + 1,
                                ret |-> TRUE]]
  /\ UNCHANGED <<vsvc_vars, cams, nprev, vcall_vars, vhist_vars>>
  /\ UNCHANGED non_vid_vars

\* Faulty variant: the slot keeps the first frame until it is fetched.
StoreFrameKeepFirst(old, new) == IF old = 0 THEN new ELSE old

\* with self._lock: self._last_frame = frame.copy()
StoreFrame(old, new) == new

\* store the frame; self.frames_captured += 1;
\* if self._callback: self._callback(frame)
VLoopDeliver(k) ==
  /\ vthr[k].state = "deliver"
  /\ last_frame' = StoreFrame(last_frame, vthr[k].frame)
  /\ stored' = Append(stored, vthr[k].frame)
  /\ frames_captured' = frames_captured + 1
  /\ called' = IF v_callback # "none"
                 THEN Append(called, v_callback) ELSE called
  /\ vthr' = [vthr EXCEPT ![k] = [state |-> "cond", frame |-> 0, ret |-> TRUE]]
  /\ UNCHANGED <<previewing, v_capture, v_callback, v_thread, camera_index,
                 resolution, cams, nprev, nframes, vcall_vars>>
  /\ UNCHANGED non_vid_vars

VLoopAlive(k) == vthr[k].state \in {"cond", "read", "deliver"}

\* ------------------------------------------------------------- adjustments
\* int(x / 2) for an integer x: truncation toward zero.
TruncHalf(x) == IF x >= 0 THEN x \div 2 ELSE -((-x) \div 2)

\* beta = int((brightness - 1.0) * 50), brightness in quarters.
Beta(b4) == TruncHalf((b4 - 4) * 25)

Abs(x) == IF x >= 0 THEN x ELSE -x

\* Rounding of h / 2 to the nearest integer, ties to the even one (cvRound).
RoundHalf(h) ==
  LET q == h \div 2
  IN IF h % 2 = 0 THEN q ELSE IF q % 2 = 0 THEN q ELSE q + 1

\* saturate_cast<uchar>
SaturateU8(x) == IF x < 0 THEN 0 ELSE IF x > 255 THEN 255 ELSE x

\* cv2.convertScaleAbs(frame, alpha, beta) on one channel value:
\* saturate(|x * alpha + beta|), alpha in halves.
ConvertScaleAbs(x, a2, beta) == SaturateU8(RoundHalf(Abs(x * a2 + 2 * beta)))

\* BGR -> HSV of a gray pixel (b = g = r = x): hue 0, saturation 0, value x.
GrayToHSV(x) == [h |-> 0, s |-> 0, v |-> x]

\* hsv[..., 1] *= saturation; clip to 0..255; astype("uint8") truncates.
ScaleSaturation(hsv, s2) ==
  [hsv EXCEPT !.s = SaturateU8((hsv.s * s2) \div 2)]

\* HSV -> BGR of a pixel of saturation 0: b = g = r = value.
HSVToGray(hsv) == hsv.v

\* The saturation stage on a gray pixel.
SaturationStage(x, s2) == HSVToGray(ScaleSaturation(GrayToHSV(x), s2))

Stage(f, p, v, name) ==
  [pos |-> p, val |-> v, stages |-> Append(f.stages, name)]

\* RecorderManager._apply_adjustments, contrast/brightness stage.
PreviewScale ==
  /\ shown.pos = "frame"
  /\ shown' = Stage(shown, "scaled",
                    ConvertScaleAbs(shown.val, contrast, Beta(brightness)),
                    "scale")
  /\ UNCHANGED <<brightness, contrast, saturation, frame_in, written,
                 pace_vars>>
  /\ UNCHANGED non_adj_vars

\* RecorderManager._apply_adjustments, saturation stage; callback(adjusted).
PreviewSaturate ==
  /\ shown.pos = "scaled"
  /\ shown' = Stage(shown, "callback",
                    SaturationStage(shown.val, saturation), "saturate")
  /\ UNCHANGED <<brightness, contrast, saturation, frame_in, written,
                 pace_vars>>
  /\ UNCHANGED non_adj_vars

\* AppWindow._update_preview._ui: convertScaleAbs with brightness_var and
\* contrast_var, which the slider handlers keep equal to the recorder's
\* brightness and contrast; then the letterbox scaling and the label.
PreviewUi ==
  /\ shown.pos = "callback"
  /\ shown' = Stage(shown, "label",
                    ConvertScaleAbs(shown.val, contrast, Beta(brightness)),
                    "scale")
  /\ UNCHANGED <<brightness, contrast, saturation, frame_in, written,
                 pace_vars>>
  /\ UNCHANGED non_adj_vars

\* RecorderManager._record_loop, contrast/brightness stage.
RecordScale ==
  /\ written.pos = "frame"
  /\ written' = Stage(written, "scaled",
                      ConvertScaleAbs(written.val, contrast, Beta(brightness)),
                      "scale")
  /\ UNCHANGED <<brightness, contrast, saturation, frame_in, shown,
                 pace_vars>>
  /\ UNCHANGED non_adj_vars

\* RecorderManager._record_loop, saturation stage; stdin.write(adjusted).
RecordSaturate ==
  /\ written.pos = "scaled"
  /\ written' = Stage(written, "pipe",
                      SaturationStage(written.val, saturation), "saturate")
  /\ UNCHANGED <<brightness, contrast, saturation, frame_in, shown,
                 pace_vars>>
  /\ UNCHANGED non_adj_vars

\* ------------------------------------------------------------- pacing
\* Faulty variant: a fixed sleep of one frame interval (the loop of
\* src/recorder_manager.py).
SleepFixed(interval, elapsed) == interval

\* max(0.0, frame_interval - elapsed)
Sleep(interval, elapsed) ==
  IF interval - elapsed > 0 THEN interval - elapsed ELSE 0

\* _record_loop before its loop: last_time = time.time()
PaceStart ==
  /\ ppos = "none"
  /\ ppos' = "loop"
  /\ last_time' = ptime
  /\ UNCHANGED <<ptime, nwritten, late>>
  /\ UNCHANGED <<brightness, contrast, saturation, frame_in, shown, written>>
  /\ UNCHANGED non_adj_vars

\* One iteration up to stdin.write: waiting for a frame, resizing, adjusting
\* and writing it take d ticks.
PaceWrite(d) ==
  /\ ppos = "loop"
  /\ nwritten < MaxPaced
  /\ ppos' = "written"
  /\ ptime' = ptime + d
  /\ late' = late + (IF d > FrameInterval THEN d - FrameInterval ELSE 0)
  /\ UNCHANGED <<last_time, nwritten>>
  /\ UNCHANGED <<brightness, contrast, saturation, frame_in, shown, written>>
  /\ UNCHANGED non_adj_vars

\* elapsed = time.time() - last_time; time.sleep(max(0.0, frame_interval -
\* elapsed)); last_time = time.time()
PaceSleep ==
  /\ ppos = "written"
  /\ ppos' = "loop"
  /\ ptime' = ptime + Sleep(FrameInterval, ptime - last_time)
  /\ last_time' = ptime'
  /\ nwritten' = nwritten + 1
  /\ UNCHANGED late
  /\ UNCHANGED <<brightness, contrast, saturation, frame_in, shown, written>>
  /\ UNCHANGED non_adj_vars

\* ------------------------------------------------------------- window
\* The Tk main loop is free to dispatch an event or an after() callback:
\* the window exists and the main thread is not inside start_recording.
AppIdle == ~destroyed /\ pc["ui"] = "idle"

HGoto(w, l) ==
  /\ hpc' = [hpc EXCEPT ![w] = l]
  /\ UNCHANGED <<btn_start, btn_stop, destroyed, device_name, harg>>

\* The worker of a handler has run to its end.
HEnd(w) ==
  /\ hpc' = [hpc EXCEPT ![w] = "idle"]
  /\ harg' = [harg EXCEPT ![w] = NoArg]
  /\ UNCHANGED <<btn_start, btn_stop, destroyed, device_name>>

\* A session is being recorded or finalized.
SessionActive ==
  \/ recording
  \/ \E t \in Callers :
       /\ op[t] = "stop"
       /\ pc[t] \in {"p_audio", "p_join", "p_write", "p_enc", "p_wait",
                     "p_merge", "p_unlink"}

\* start_record (the Start button): set the recorder's brightness and
\* contrast from the sliders, which already hold them, and call
\* start_recording on the main thread.
StartRecord(d) ==
  /\ AppIdle
  /\ btn_start = "normal"
  /\ nsess < MaxAppSessions
  /\ EnterStart("ui", d)
  /\ UNCHANGED non_core_vars

\* start_record after the call: on success Start is disabled and Stop
\* enabled; on an exception a message box is shown.
StartRecordDone ==
  /\ ~destroyed
  /\ pc["ui"] = "done" /\ op["ui"] = "start"
  /\ Leave("ui")
  /\ IF exc["ui"] = "none"
       THEN btn_start' = "disabled" /\ btn_stop' = "normal"
       ELSE UNCHANGED <<btn_start, btn_stop>>
  /\ UNCHANGED <<destroyed, device_name, hpc, harg, vid_vars, adj_vars>>

\* stop_record (the Stop button): disable Stop and start the _stop_thread
\* worker, which calls stop_recording.
StopRecord ==
  /\ AppIdle
  /\ btn_stop = "normal"
  /\ btn_stop' = "disabled"
  /\ EnterStop("stop_worker")
  /\ UNCHANGED <<btn_start, destroyed, device_name, hpc, harg, vid_vars,
                 adj_vars>>

\* _stop_thread after the call, and the after() callbacks of its finally
\* clause run by the main loop: Start enabled, Stop disabled.
StopThreadDone ==
  /\ AppIdle
  /\ pc["stop_worker"] = "done"
  /\ Leave("stop_worker")
  /\ btn_start' = "normal"
  /\ btn_stop' = "disabled"
  /\ UNCHANGED <<destroyed, device_name, hpc, harg, vid_vars, adj_vars>>

\* close (WM_DELETE_WINDOW): when the recorder is recording the user is
\* asked and has answered yes; the stop_and_exit worker is started.
Close ==
  /\ AppIdle
  /\ hpc["close_worker"] = "idle"
  /\ hpc' = [hpc EXCEPT !["close_worker"] = "close_check"]
  /\ harg' = [harg EXCEPT !["close_worker"] =
                [val |-> "none", rec |-> SessionActive]]
  /\ UNCHANGED <<btn_start, btn_stop, destroyed, device_name>>
  /\ UNCHANGED <<core_vars, vid_vars, adj_vars>>

\* stop_and_exit: if self.recorder.recording: self.recorder.stop_recording()
CloseCheck ==
  /\ hpc["close_worker"] = "close_check"
  /\ IF recording
       THEN /\ EnterStop("close_worker")
            /\ HGoto("close_worker", "close_stop")
       ELSE /\ HGoto("close_worker", "close_preview")
            /\ UNCHANGED core_vars
  /\ UNCHANGED <<vid_vars, adj_vars>>

\* stop_recording has returned to stop_and_exit, or has raised: the worker
\* has no handler and dies.
CloseStopped ==
  /\ hpc["close_worker"] = "close_stop"
  /\ pc["close_worker"] = "done"
  /\ Leave("close_worker")
  /\ HGoto("close_worker",
           IF exc["close_worker"] = "none" THEN "close_preview" ELSE "dead")
  /\ UNCHANGED <<vid_vars, adj_vars>>

\* if video_service.previewing: video_service.stop_preview()
ClosePreview ==
  /\ hpc["close_worker"] = "close_preview"
  /\ IF previewing
       THEN /\ VEnterStop("close_worker")
            /\ HGoto("close_worker", "close_stopping")
       ELSE /\ HGoto("close_worker", "close_exit")
            /\ UNCHANGED vid_vars
  /\ UNCHANGED <<core_vars, adj_vars>>

\* stop_preview has returned to stop_and_exit.
ClosePreviewStopped ==
  /\ hpc["close_worker"] = "close_stopping"
  /\ VLeave("close_worker")
  /\ HGoto("close_worker", "close_exit")
  /\ UNCHANGED <<core_vars, adj_vars>>

\* self._save_settings(); self.root.after(0, self.root.destroy), which the
\* main loop runs: the window is destroyed and mainloop() returns.
CloseExit ==
  /\ hpc["close_worker"] = "close_exit"
  /\ AppIdle
  /\ destroyed' = TRUE
  /\ hpc' = [hpc EXCEPT !["close_worker"] = "exited"]
  /\ UNCHANGED <<btn_start, btn_stop, device_name, harg>>
  /\ UNCHANGED <<core_vars, vid_vars, adj_vars>>

\* The first resolution of a camera of the devices cache.
FirstResolution(c) == IF c = 0 THEN "1280x720" ELSE "640x480"

\* The user makes one change at a time: no worker of a change handler is
\* under way.
NoSwitchPending == \A w \in Switchers : hpc[w] = "idle"

\* Handler workers that have yet to call start_preview.
PendingPreviews == {w \in {"switch_camera", "switch_res"} : hpc[w] # "idle"}

\* _change_camera (a camera picked in the combo box): start switch_camera.
ChangeCamera(c) ==
  /\ AppIdle
  /\ NoSwitchPending
  /\ nprev + Cardinality(PendingPreviews) < MaxPreviews
  /\ hpc' = [hpc EXCEPT !["switch_camera"] = "cam_stop"]
  /\ harg' = [harg EXCEPT !["switch_camera"] = [val |-> c, rec |-> SessionActive]]
  /\ UNCHANGED <<btn_start, btn_stop, destroyed, device_name>>
  /\ UNCHANGED <<core_vars, vid_vars, adj_vars>>

\* switch_camera: self.recorder.video_service.stop_preview()
SwitchCameraStop ==
  /\ hpc["switch_camera"] = "cam_stop"
  /\ VEnterStop("switch_camera")
  /\ HGoto("switch_camera", "cam_stopping")
  /\ UNCHANGED <<core_vars, adj_vars>>

SwitchCameraStopped ==
  /\ hpc["switch_camera"] = "cam_stopping"
  /\ VLeave("switch_camera")
  /\ HGoto("switch_camera", "cam_set")
  /\ UNCHANGED <<core_vars, adj_vars>>

\* The camera is looked up by name (the combo box offers the cached names
\* only); video_service.camera_index = camera["index"];
\* video_service.resolution = the camera's first resolution.
SwitchCameraSet ==
  /\ hpc["switch_camera"] = "cam_set"
  /\ camera_index' = harg["switch_camera"].val
  /\ resolution' = FirstResolution(harg["switch_camera"].val)
  /\ HGoto("switch_camera", "cam_start")
  /\ UNCHANGED <<previewing, v_capture, v_callback, v_thread, frames_captured,
                 last_frame, vthr_vars, vcall_vars, vhist_vars>>
  /\ UNCHANGED <<core_vars, adj_vars>>

\* self.start_preview()
SwitchCameraStart ==
  /\ hpc["switch_camera"] = "cam_start"
  /\ VEnterStart("switch_camera", "cb_b")
  /\ HGoto("switch_camera", "cam_starting")
  /\ UNCHANGED <<core_vars, adj_vars>>

SwitchCameraDone ==
  /\ hpc["switch_camera"] = "cam_starting"
  /\ VLeave("switch_camera")
  /\ HEnd("switch_camera")
  /\ UNCHANGED <<core_vars, adj_vars>>

\* _change_resolution (a resolution picked in the combo box): start
\* switch_res.
ChangeResolution(r) ==
  /\ AppIdle
  /\ NoSwitchPending
  /\ nprev + Cardinality(PendingPreviews) < MaxPreviews
  /\ hpc' = [hpc EXCEPT !["switch_res"] = "res_set"]
  /\ harg' = [harg EXCEPT !["switch_res"] = [val |-> r, rec |-> SessionActive]]
  /\ UNCHANGED <<btn_start, btn_stop, destroyed, device_name>>
  /\ UNCHANGED <<core_vars, vid_vars, adj_vars>>

\* switch_res: self.recorder.video_service.resolution = (width, height)
SwitchResSet ==
  /\ hpc["switch_res"] = "res_set"
  /\ resolution' = harg["switch_res"].val
  /\ HGoto("switch_res", "res_stop")
  /\ UNCHANGED <<previewing, v_capture, v_callback, v_thread, frames_captured,
                 last_frame, camera_index, vthr_vars, vcall_vars, vhist_vars>>
  /\ UNCHANGED <<core_vars, adj_vars>>

\* self.recorder.video_service.stop_preview()
SwitchResStop ==
  /\ hpc["switch_res"] = "res_stop"
  /\ VEnterStop("switch_res")
  /\ HGoto("switch_res", "res_stopping")
  /\ UNCHANGED <<core_vars, adj_vars>>

SwitchResStopped ==
  /\ hpc["switch_res"] = "res_stopping"
  /\ VLeave("switch_res")
  /\ HGoto("switch_res", "res_start")
  /\ UNCHANGED <<core_vars, adj_vars>>

\* self.start_preview()
SwitchResStart ==
  /\ hpc["switch_res"] = "res_start"
  /\ VEnterStart("switch_res", "cb_b")
  /\ HGoto("switch_res", "res_starting")
  /\ UNCHANGED <<core_vars, adj_vars>>

SwitchResDone ==
  /\ hpc["switch_res"] = "res_starting"
  /\ VLeave("switch_res")
  /\ HEnd("switch_res")
  /\ UNCHANGED <<core_vars, adj_vars>>

\* _change_microphone (a microphone picked in the combo box): start
\* switch_mic.
ChangeMicrophone(m) ==
  /\ AppIdle
  /\ NoSwitchPending
  /\ hpc' = [hpc EXCEPT !["switch_mic"] = "mic_set"]
  /\ harg' = [harg EXCEPT !["switch_mic"] = [val |-> m, rec |-> SessionActive]]
  /\ UNCHANGED <<btn_start, btn_stop, destroyed, device_name>>
  /\ UNCHANGED <<core_vars, vid_vars, adj_vars>>

\* switch_mic: self.recorder.audio_service.device_name = new_mic
SwitchMicSet ==
  /\ hpc["switch_mic"] = "mic_set"
  /\ device_name' = harg["switch_mic"].val
  /\ hpc' = [hpc EXCEPT !["switch_mic"] = "idle"]
  /\ harg' = [harg EXCEPT !["switch_mic"] = NoArg]
  /\ UNCHANGED <<btn_start, btn_stop, destroyed>>
  /\ UNCHANGED <<core_vars, vid_vars, adj_vars>>

\* ------------------------------------------------------------- specification
RecorderStep(t) ==
  \/ StartCheck(t)
  \/ StartPaths(t)
  \/ StartSpawn(t)
  \/ StartAudio(t)
  \/ StartFlag(t)
  \/ StopCheck(t)
  \/ StopFlag(t)
  \/ StopAudio(t)
  \/ StopAudioJoin(t)
  \/ StopAudioWrite(t)
  \/ StopEncClose(t)
  \/ StopEncWait(t)
  \/ StopMerge(t)
  \/ StopUnlink(t)

CallerNext(t) ==
  \/ Resume(t)
  \/ RecorderStep(t)

PumpNext ==
  \/ \E s \in Sessions : PumpCond(s)
  \/ \E s \in Sessions : PumpWrite(s)

\* The audio capture thread opening its stream and leaving its loop.
AudioLoopNext ==
  \/ \E s \in Sessions : AudioOpen(s)
  \/ \E s \in Sessions : AudioLoopExit(s)

\* The stream's callback.
AudioCallbackNext ==
  \/ \E s \in Sessions : AudioCallbackCheck(s)
  \/ \E s \in Sessions : AudioCallbackAppend(s)

EncoderNext ==
  \/ \E p \in Sessions : EncoderExit(p)
  \/ \E p \in Sessions : EncoderCrash(p)

ThreadNext ==
  \/ PumpNext
  \/ AudioLoopNext
  \/ AudioCallbackNext
  \/ EncoderNext

Next ==
  \/ \E t \in Starters, d \in OutputDirs : CallStart(t, d)
  \/ \E t \in Stoppers : CallStop(t)
  \/ \E t \in Callers : CallerNext(t)
  \/ ThreadNext

NextSeq ==
  \/ \E t \in SeqCallers, d \in OutputDirs : CallStart(t, d)
  \/ \E t \in SeqCallers : CallStop(t)
  \/ \E t \in SeqCallers : CallerNext(t)
  \/ ThreadNext

VideoStartStep(t) ==
  \/ VStartCheck(t)
  \/ VStartInit(t)
  \/ VStartOpen(t)
  \/ VStartThread(t)

VideoStopStep(t) ==
  \/ VStopFlag(t)
  \/ VStopThread(t)
  \/ VStopJoin(t)
  \/ VStopRelease(t)

VideoStep(t) ==
  \/ VideoStartStep(t)
  \/ VideoStopStep(t)

VideoCallerNext(t) ==
  \/ VResume(t)
  \/ VideoStep(t)

VideoThreadNext ==
  \/ \E k \in Handles : VLoopCond(k)
  \/ \E k \in Handles : VLoopRead(k)
  \/ \E k \in Handles : VLoopDeliver(k)

NextVideo ==
  \/ \E t \in VideoCtl, cb \in Callbacks : VCallStart(t, cb)
  \/ \E t \in VideoCtl : VCallStop(t)
  \/ \E t \in VideoUsers : VGetFrame(t)
  \/ \E t \in VideoCallers : VideoCallerNext(t)
  \/ VideoThreadNext

\* The video service called from two worker threads at once.
NextPreviewRace ==
  \/ \E t \in VideoRacers, cb \in Callbacks : VCallStart(t, cb)
  \/ \E t \in VideoRacers : VCallStop(t)
  \/ \E t \in VideoRacers : VideoCallerNext(t)
  \/ VideoThreadNext

NextPace ==
  \/ PaceStart
  \/ \E d \in 0..MaxProcess : PaceWrite(d)
  \/ PaceSleep

NextAdjust ==
  \/ PreviewScale
  \/ PreviewSaturate
  \/ PreviewUi
  \/ RecordScale
  \/ RecordSaturate

RecordNext ==
  \/ \E d \in OutputDirs : StartRecord(d)
  \/ StartRecordDone
  \/ StopRecord
  \/ StopThreadDone

CloseNext ==
  \/ Close
  \/ CloseCheck
  \/ CloseStopped
  \/ ClosePreview
  \/ ClosePreviewStopped
  \/ CloseExit

SwitchNext ==
  \/ \E c \in CameraIndexes : ChangeCamera(c)
  \/ SwitchCameraStop
  \/ SwitchCameraStopped
  \/ SwitchCameraSet
  \/ SwitchCameraStart
  \/ SwitchCameraDone
  \/ \E r \in Resolutions : ChangeResolution(r)
  \/ SwitchResSet
  \/ SwitchResStop
  \/ SwitchResStopped
  \/ SwitchResStart
  \/ SwitchResDone
  \/ \E m \in Microphones : ChangeMicrophone(m)
  \/ SwitchMicSet

NextClose ==
  \/ RecordNext
  \/ CloseNext
  \/ \E t \in Callers : RecorderStep(t)
  \/ \E t \in VideoCallers : VideoStopStep(t)
  \/ ThreadNext
  \/ VideoThreadNext

NextSwitch ==
  \/ RecordNext
  \/ SwitchNext
  \/ \E t \in Callers : RecorderStep(t)
  \/ \E t \in VideoCallers : VideoStep(t)
  \/ PumpNext
  \/ AudioLoopNext
  \/ EncoderNext
  \/ VideoThreadNext

\* Concurrent callers.
Spec == Init /\ [][Next]_vars

\* One caller: calls do not overlap.
SpecSeq == Init /\ [][NextSeq]_vars

\* One caller, recording into directories of any name.
NextPaths ==
  \/ \E t \in SeqCallers, d \in AnyOutputDirs : CallStart(t, d)
  \/ \E t \in SeqCallers : CallStop(t)
  \/ \E t \in SeqCallers : CallerNext(t)
  \/ ThreadNext

SpecPaths == Init /\ [][NextPaths]_vars

\* Fair scheduling: every thread that can take a step eventually takes one
\* (a caller inside start_recording or stop_recording, each frame pump,
\* each audio capture thread), and an encoder whose input pipe has been
\* closed exits.  Nothing obliges the user to call start_recording or
\* stop_recording, the stream to deliver a block, or an encoder to crash.
Fairness ==
  /\ \A t \in SeqCallers : WF_vars(RecorderStep(t))
  /\ \A s \in Sessions : WF_vars(PumpCond(s) \/ PumpWrite(s))
  /\ \A s \in Sessions : WF_vars(AudioOpen(s) \/ AudioLoopExit(s))
  /\ \A s \in Sessions : WF_vars(AudioCallbackAppend(s))
  /\ \A p \in Sessions : WF_vars(EncoderExit(p))

\* One caller under fair scheduling.
SpecSeqFair == Init /\ [][NextSeq]_vars /\ Fairness

\* The video service: one thread starts and stops the preview, another
\* fetches frames, the capture loops run concurrently with both.
SpecVideo == Init /\ [][NextVideo]_vars

\* The video service with two threads that each start and stop the preview,
\* their calls overlapping freely, and the capture loops.
SpecPreviewRace == Init /\ [][NextPreviewRace]_vars

\* The pump paces itself over frames that are always there.
SpecPace == Init /\ [][NextPace]_vars

\* One captured frame goes down the preview path and the recording path.
SpecAdjust == InitAdjust /\ [][NextAdjust]_vars

\* The window with its Start and Stop buttons and its close handler: the
\* main thread, the _stop_thread worker and the stop_and_exit worker drive
\* the recorder and stop the preview that __init__ started.
SpecClose == InitApp /\ [][NextClose]_vars

\* The window with its Start and Stop buttons and its camera, resolution
\* and microphone handlers, whose workers drive the video service.  The
\* audio stream delivers no block before the recording is stopped.
SpecSwitch == InitApp /\ [][NextSwitch]_vars

\* ------------------------------------------------------------- properties
\* A stop_recording call that has set recording to False and has not yet
\* returned or raised.
Finalizing(u) ==
  /\ op[u] = "stop"
  /\ pc[u] \in {"p_audio", "p_join", "p_write", "p_enc", "p_wait", "p_merge",
                "p_unlink"}

LiveEncoders == {p \in Sessions : procs[p].state = "running"}

\* The audio sink is stopped and flushed: flag down, thread joined, blocks
\* and path cleared, no capture thread running.
AudioFlushed ==
  /\ ~a_recording
  /\ a_thread = 0
  /\ a_file_path = None
  /\ a_frames = <<>>
  /\ \A s \in Sessions : athr[s] \notin {"opening", "running", "appending"}

\* C1: start_recording called while the recorder is recording fails with
\* AlreadyRecording and changes nothing of the session: paths, encoder
\* handle, recording flag, audio service, processes, threads and files.
C1_StartWhileRecordingFails ==
  [][\A t \in Callers :
       (pc[t] = "s_check" /\ pc'[t] # "s_check" /\ recording)
         => /\ pc'[t] = "done"
            /\ exc'[t] = "AlreadyRecording"
            /\ ret'[t] = None
            /\ UNCHANGED <<rec_vars, aud_vars, thr_vars, env_vars, nsess>>]_vars

\* A start_recording call has been refused while a session is recording with
\* its encoder, audio capture and pump running.
C1_Witness ==
  \E t \in Callers :
    /\ pc[t] = "done" /\ op[t] = "start" /\ exc[t] = "AlreadyRecording"
    /\ recording /\ ffmpeg_proc # 0 /\ a_recording
    /\ PumpAlive(ffmpeg_proc)

\* C2 (as claimed): a start_recording call whose guard is evaluated while a
\* stop_recording call is finalizing fails with AlreadyRecording.
C2_StartWhileFinalizingFails ==
  [][\A t \in Callers :
       (pc[t] = "s_check" /\ pc'[t] # "s_check"
          /\ \E u \in Callers : Finalizing(u))
         => exc'[t] = "AlreadyRecording"]_vars

\* C3: stop_recording called while not recording returns None, raises
\* nothing and changes no field of the recorder, the audio service, the
\* processes, the threads or the files.
C3_StopWhileIdleIsNoOp ==
  [][\A t \in Callers :
       (pc[t] = "p_check" /\ pc'[t] # "p_check" /\ ~recording)
         => /\ pc'[t] = "done"
            /\ ret'[t] = None
            /\ exc'[t] = "none"
            /\ UNCHANGED <<rec_vars, aud_vars, thr_vars, env_vars, nsess,
                           sess>>]_vars

\* stop_recording has returned None without finalizing anything, before any
\* session and after a finished one.
C3_Witness ==
  \E t \in Callers :
    /\ pc[t] = "done" /\ op[t] = "stop" /\ ret[t] = None /\ exc[t] = "none"
    /\ loc[t] = NoLoc
    /\ ~recording /\ nsess >= 1 /\ video_file = None /\ ffmpeg_proc = 0

\* The final files of session s.
FinalFilesOf(s) ==
  {f \in files : /\ f[1] = sess[s].final[1]
                 /\ f[2] = "recording_"
                 /\ f[3] = sess[s].final[3]}

\* C4: when the encoder and the muxer of a start/stop cycle both exit with
\* code 0, stop_recording returns the session's final path, that file is the
\* one final file of the session, and neither intermediate file is left.
C4_CycleLeavesOnlyFinalFile ==
  \A t \in SeqCallers :
    (pc[t] = "done" /\ op[t] = "stop" /\ loc[t].enc_rc = 0 /\ loc[t].mux_rc = 0)
      => /\ exc[t] = "none"
         /\ ret[t] = sess[nsess].final
         /\ ret[t] \in files
         /\ Cardinality(FinalFilesOf(nsess)) = 1
         /\ sess[nsess].video \notin files
         /\ sess[nsess].audio \notin files

\* A cycle whose encoder and muxer exited 0 has returned its final path.
C4_Witness ==
  \E t \in SeqCallers :
    /\ pc[t] = "done" /\ op[t] = "stop"
    /\ loc[t].enc_rc = 0 /\ loc[t].mux_rc = 0
    /\ ret[t] # None /\ ret[t] \in files

\* C5: a nonzero exit code of the muxer makes stop_recording raise the merge
\* error and leaves the files as they are; a file is removed only by the
\* caller whose muxer run has just exited with code 0.
C5_MergeFailureKeepsIntermediates ==
  [][/\ \A t \in Callers :
          (pc[t] = "p_merge" /\ loc'[t].mux_rc \notin {-1, 0})
            => /\ pc'[t] = "done"
               /\ exc'[t] = "MergeError"
               /\ files' = files
     /\ (files \ files' # {})
          => \E t \in Callers :
               /\ pc[t] = "p_unlink" /\ loc[t].mux_rc = 0
               /\ pc'[t] = "done"]_vars

\* stop_recording has raised the merge error and both intermediate files of
\* the session exist.
C5_Witness ==
  \E t \in Callers, s \in Sessions :
    /\ pc[t] = "done" /\ op[t] = "stop" /\ exc[t] = "MergeError"
    /\ loc[t].mux_rc = 1
    /\ sess[s].video \in files /\ sess[s].audio \in files

\* C6 (as claimed): at most one encoder child process is alive, and no new
\* session's paths are set while a stop_recording call is still finalizing.
C6_OneSessionAtATime ==
  /\ Cardinality(LiveEncoders) <= 1
  /\ \A t, u \in Callers :
       pc[t] \in {"s_spawn", "s_audio", "s_flag"} => ~Finalizing(u)

\* C7 (as claimed): when no call is in progress, the recorder holds an
\* encoder it has started and not stopped iff the audio service is recording.
C7_SymmetricLifecycle ==
  (\A t \in Callers : pc[t] \in {"idle", "done"})
    => ((ffmpeg_proc # 0 /\ procs[ffmpeg_proc].stdin) <=> a_recording)

\* C8 (as claimed): once stop_recording goes on to stop the audio sink, and
\* when it has returned or raised, no frame pump thread is alive.
C8_PumpJoinedByStop ==
  \A t \in Callers :
    (op[t] = "stop"
       /\ (Finalizing(t)
             \/ (pc[t] = "done" /\ (ret[t] # None \/ exc[t] # "none"))))
      => \A s \in Sessions : ~PumpAlive(s)

\* C9: in stop_recording the audio sink is stopped and flushed before the
\* encoder's pipe is closed; the muxer is invoked only after the audio thread
\* has been joined and the session's encoder has been closed and has exited;
\* the video intermediate exists until the muxer has run, and files are
\* removed only after a muxer run.
C9_FinalizationOrder ==
  \A t \in SeqCallers :
    /\ pc[t] \in {"p_enc", "p_wait", "p_merge", "p_unlink"} => AudioFlushed
    /\ pc[t] \in {"p_merge", "p_unlink"}
         => /\ ffmpeg_proc = 0
            /\ procs[nsess].state = "exited"
            /\ ~procs[nsess].stdin
    /\ pc[t] \in {"p_flag", "p_audio", "p_join", "p_write", "p_enc", "p_wait",
                  "p_merge"}
         => sess[nsess].video \in files
    /\ pc[t] = "p_unlink" => loc[t].mux_rc = 0

\* The muxer has run on a session whose audio file was written.
C9_Witness ==
  \E t \in SeqCallers :
    /\ pc[t] = "p_unlink"
    /\ sess[nsess].audio \in files /\ sess[nsess].video \in files
    /\ sess[nsess].final \in files

\* C10 (as claimed): a stop_recording call whose encoder exited with a
\* nonzero code ends with an error, and the video intermediate still exists.
C10_EncoderFailureReported ==
  \A t \in Callers :
    (pc[t] = "done" /\ op[t] = "stop" /\ loc[t].enc_rc \notin {-1, 0})
      => /\ exc[t] # "none"
         /\ sess[nsess].video \in files

\* C11 (as claimed): while the recorder is in the recording state with the
\* audio capture running, the frame pump of its session is running: a pump
\* that ended on a failed pipe write does not leave the recorder recording.
C11_PumpFailureStopsRecording ==
  (recording /\ a_recording /\ ffmpeg_proc # 0) => PumpAlive(ffmpeg_proc)

\* C12 (as claimed): no frame pump thread dies of an uncaught exception,
\* whatever the point of its iteration at which stop_recording runs.
C12_StopNeverCrashesPump ==
  \A s \in Sessions : pump[s] # "crashed"

\* C18 (as claimed): when the input stream of the session could not be
\* opened, the start_recording call of that session has raised and the
\* audio service is not left recording.
C18_OpenFailureSurfaced ==
  \A t \in Callers :
    (pc[t] = "done" /\ op[t] = "start" /\ loc[t].sid # 0
       /\ athr[loc[t].sid] = "failed")
      => /\ exc[t] # "none"
         /\ ~a_recording

\* C19: a start_recording call that is past Popen without an encoder process
\* has raised the spawn error, returned nothing and started nothing: no
\* audio thread and no frame pump of its session exist, the audio service
\* is not recording and the recording flag is false.
C19_SpawnFailureStartsNothing ==
  \A t \in SeqCallers :
    (op[t] = "start" /\ loc[t].sid # 0 /\ pc[t] # "s_spawn"
       /\ procs[loc[t].sid].state = "none")
      => /\ pc[t] = "done"
         /\ exc[t] = "SpawnError"
         /\ ret[t] = None
         /\ athr[loc[t].sid] = "none"
         /\ pump[loc[t].sid] = "none"
         /\ a_thread # loc[t].sid
         /\ ~a_recording
         /\ ~recording

\* start_recording has raised the spawn error in its second session.
C19_Witness ==
  \E t \in SeqCallers :
    /\ pc[t] = "done" /\ op[t] = "start" /\ exc[t] = "SpawnError"
    /\ loc[t].sid = 2 /\ procs[1].state = "exited"

\* The preview is stopped: the flag is down and no start_preview or
\* stop_preview call is in progress.
PreviewStopped ==
  /\ ~previewing
  /\ \A t \in VideoCtl : vpc[t] \in {"idle", "done"}

\* The frame stored last, 0 when none was ever stored.
LatestStored == IF stored = <<>> THEN 0 ELSE stored[Len(stored)]

\* C15: stop_preview returns only with the flag down, the capture thread
\* terminated and the handle released after that; while the preview is
\* stopped no frame is stored or counted and no callback is invoked; and the
\* capture loop reads only from a handle that is open.
C15_StopPreviewJoinsThenReleases ==
  [][/\ PreviewStopped
          => /\ UNCHANGED <<last_frame, stored, called, frames_captured>>
             /\ v_capture = 0 /\ v_thread = 0
             /\ \A k \in Handles : ~VLoopAlive(k) /\ cams[k].state # "opened"
     /\ \A k \in Handles :
          (vthr[k].state = "read" /\ vthr'[k] # vthr[k])
            => (v_capture # 0 /\ cams[v_capture].state = "opened")
     /\ \A t \in VideoCtl :
          (vpc[t] = "x_release" /\ vpc'[t] = "done")
            => \A k \in Handles : ~VLoopAlive(k)]_vars

\* stop_preview has returned on a preview that had delivered frames to its
\* callback; the camera handle is released and the thread has ended.
C15_Witness ==
  \E t \in VideoCtl :
    /\ vpc[t] = "done" /\ vop[t] = "stop"
    /\ stored # <<>> /\ called # <<>>
    /\ cams[1].state = "released" /\ vthr[1].state = "dead"

\* C16: a start_preview call whose guard sees the preview running returns
\* at once: it opens no handle, starts no thread and leaves the callback,
\* the frame counter, the flag and the latest frame as they are.
C16_StartPreviewIdempotent ==
  [][\A t \in VideoCallers :
       (vpc[t] = "v_check" /\ vpc'[t] # "v_check" /\ previewing)
         => /\ vpc'[t] = "done"
            /\ UNCHANGED <<vsvc_vars, vthr_vars, vhist_vars>>]_vars

\* start_preview has returned without opening a handle while a preview
\* subscribed with another callback is running and has counted a frame.
C16_Witness ==
  \E t \in VideoCtl :
    /\ vpc[t] = "done" /\ vop[t] = "start" /\ vloc[t] = 0
    /\ previewing /\ v_callback # varg[t] /\ frames_captured > 0
    /\ v_thread # 0 /\ VLoopAlive(v_thread) /\ nprev = 1

\* C17: get_frame returns the frame the capture loop stored last before the
\* call, or nothing when none was stored; the single slot always holds the
\* frame stored last.
C17_GetFrameReturnsLatest ==
  [][/\ \A t \in VideoCallers :
          (vpc[t] = "idle" /\ vpc'[t] = "done" /\ vop'[t] = "get")
            => vret'[t] = LatestStored
     /\ last_frame' = LatestStored']_vars

\* get_frame has returned the second frame although the first one was never
\* fetched in between.
C17_Witness ==
  \E t \in VideoUsers :
    /\ vpc[t] = "done" /\ vop[t] = "get"
    /\ stored = <<1, 2>> /\ vret[t] = 2

\* C20 (as claimed): the frame put on the preview label and the frame
\* written to the encoder's pipe have both gone through the scale stage once
\* and then the saturation stage once, and so have the same pixel values.
C20_PreviewMatchesRecording ==
  (shown.pos = "label" /\ written.pos = "pipe")
    => /\ shown.stages = <<"scale", "saturate">>
       /\ written.stages = <<"scale", "saturate">>
       /\ shown.val = written.val

\* C13 (as claimed): a step of the worker of a change handler that was
\* invoked during a recording, taken while the recorder is recording, leaves
\* the camera index, the resolution, the audio device and the capture loop
\* (flag, handle, thread) unchanged.
C13_ChangesRejectedWhileRecording ==
  [][\A w \in Switchers :
       (/\ recording
        /\ harg[w].rec
        /\ \/ hpc'[w] # hpc[w]
           \/ (w \in VideoCallers /\ vpc'[w] # vpc[w]))
         => UNCHANGED <<camera_index, resolution, device_name, previewing,
                        v_capture, v_thread>>]_vars

\* C14 (as claimed): when the window was closed during a session and has
\* been destroyed, no session is being recorded or finalized: the recording
\* flag is down, no stop_recording call is under way and no encoder process
\* is running.
C14_CloseFinishesRecording ==
  (destroyed /\ harg["close_worker"].rec)
    => /\ ~recording
       /\ \A t \in Callers : ~Finalizing(t)
       /\ LiveEncoders = {}

\* C21 (as claimed): once a stop_recording call that ran the muxer has
\* returned or raised, the recorder holds no session state: the two
\* intermediate paths and the encoder handle are cleared, whether the muxer
\* exited with code 0 or not.
C21_SessionDestroyedAfterMerge ==
  \A t \in SeqCallers :
    (pc[t] = "done" /\ op[t] = "stop" /\ loc[t].mux_rc # -1)
      => /\ video_file = None
         /\ audio_file = None
         /\ ffmpeg_proc = 0

\* C22: no step of a start_recording or stop_recording call changes the
\* preview state of the video service: the previewing flag, the camera
\* handle, the capture thread and the subscribed callback.
C22_RecordingLeavesPreviewRunning ==
  [][\A t \in Callers :
       pc'[t] # pc[t]
         => UNCHANGED <<previewing, v_capture, v_callback, v_thread>>]_vars

\* stop_recording has finalized a session and returned its file while the
\* preview the window started is running on its camera handle.
C22_Witness ==
  \E t \in Callers :
    /\ pc[t] = "done" /\ op[t] = "stop" /\ ret[t] # None
    /\ previewing /\ v_capture = 1 /\ v_thread = 1 /\ v_callback = "cb_a"
    /\ cams[1].state = "opened" /\ VLoopAlive(1)

\* C23: when the write of the audio file fails (stop_recording leaves the
\* write with the blocks still held), the call ends there with the write
\* error and without a return value, and no file is removed; a call that
\* has ended with the write error has not run the muxer.
C23_AudioWriteFailureSurfaced ==
  [][\A t \in Callers :
       /\ (pc[t] = "p_write" /\ pc'[t] # "p_write" /\ a_frames' # <<>>)
            => /\ pc'[t] = "done"
               /\ exc'[t] = "WriteError"
               /\ ret'[t] = None
               /\ files' = files
       /\ (pc'[t] = "done" /\ exc'[t] = "WriteError")
            => loc'[t].mux_rc = -1]_vars

\* stop_recording has raised the write error: the video intermediate is
\* there, no audio file and no final file were written.
C23_Witness ==
  \E t \in Callers, s \in Sessions :
    /\ pc[t] = "done" /\ op[t] = "stop" /\ exc[t] = "WriteError"
    /\ a_frames # <<>> /\ a_file_path = sess[s].audio
    /\ sess[s].video \in files
    /\ sess[s].audio \notin files /\ sess[s].final \notin files

\* C24: stop_recording reads the accumulated blocks only when no audio
\* capture thread is running, and the rows it writes to the file are the
\* rows of the blocks the callback has appended since start_recording, in
\* the order of their arrival, all of them blocks of the session being
\* stopped: none lost, duplicated, reordered or appended afterwards, none of
\* an earlier session.
C24_AudioFileHoldsAcceptedBlocks ==
  \A t \in SeqCallers :
    /\ pc[t] = "p_write"
         => \A s \in Sessions : athr[s] \notin {"opening", "running",
                                               "appending"}
    /\ (op[t] = "stop"
          /\ (pc[t] \in {"p_enc", "p_wait", "p_merge", "p_unlink"}
                \/ (pc[t] = "done" /\ loc[t].mux_rc # -1)))
         => /\ Len(loc[t].audio_data) = Len(heard)
            /\ \A i \in 1..Len(heard) :
                 /\ loc[t].audio_data[i] = heard[i][1]
                 /\ loc[t].audio_data[i].sess = nsess
                 /\ loc[t].audio_data[i].seq = i

\* The second session's file has been written from the two blocks that
\* session accepted; the first session has left no audio file.
C24_Witness ==
  \E t \in SeqCallers :
    /\ op[t] = "stop" /\ pc[t] = "p_enc" /\ nsess = 2
    /\ Len(loc[t].audio_data) = 2
    /\ sess[2].audio \in files
    /\ sess[1].audio \notin files

\* C25: a read on an open camera handle that gives no frame puts the
\* capture loop back at its condition at once: the latest frame, the frame
\* counter, the frames stored and the callbacks invoked are unchanged, and
\* the thread neither ends nor dies of an exception.
C25_ReadFailureRetriedSilently ==
  [][\A k \in Handles :
       (/\ vthr[k].state = "read"
        /\ vthr'[k] # vthr[k]
        /\ vthr'[k].state # "deliver"
        /\ v_capture # 0
        /\ cams[v_capture].state = "opened")
         => /\ vthr'[k].state = "cond"
            /\ UNCHANGED <<last_frame, frames_captured, stored, called,
                           previewing, v_capture, v_thread>>]_vars

\* The capture loop is back at its condition after a failed read on its
\* open handle, the preview still running, between two frames it delivers.
C25_Witness ==
  \E k \in Handles :
    /\ vthr[k].state = "cond" /\ ~vthr[k].ret
    /\ previewing /\ v_capture = k /\ cams[k].state = "opened"
    /\ stored = <<1>> /\ frames_captured = 1 /\ last_frame = 1
    /\ nframes < MaxFrames

\* C26 (as claimed): every frame a pump writes to an encoder's pipe has the
\* frame size that was put on that encoder's command line: the size the
\* pump resizes its frames to is the size declared to the encoder it writes
\* to.
C26_FrameSizeMatchesEncoder ==
  [][\A s \in Sessions :
       (pump[s] = "write" /\ pump'[s] = "cond")
         => psize[s] = sess[ffmpeg_proc].size]_vars

\* C27 (as claimed): the scale stage maps a channel value x to
\* clamp(contrast * x + offset, 0, 255) with offset =
\* trunc((brightness - 1.0) * 50), to within the rounding to an integer; a
\* value that would fall below 0 becomes 0.  (Values are compared doubled,
\* contrast being held in halves.)
C27_ScaleStageClamps ==
  written.pos = "scaled"
    => LET h == frame_in * contrast + 2 * Beta(brightness)
           clamped == IF h < 0 THEN 0 ELSE IF h > 510 THEN 510 ELSE h
       IN Abs(2 * written.val - clamped) <= 1

\* C28: at each pacing point the time the pump has run is the number of
\* frames written times the frame interval, plus only the time by which
\* iterations took longer than the frame interval: the time an iteration
\* spends on its frame does not add to the period.
C28_PumpPacingDriftCorrected ==
  ppos = "loop" => ptime = nwritten * FrameInterval + late

\* The pump has paced four frames, one of them in an iteration that overran
\* the frame interval by one tick, and has spent two ticks on the frame it
\* has just written.
C28_Witness ==
  /\ ppos = "written" /\ nwritten = 4 /\ late = 1
  /\ last_time = 4 * FrameInterval + 1
  /\ ptime = last_time + 2

\* C29 (as claimed): at most one frame pump thread is alive, and a pump
\* writes frames only to the encoder of the session it was started for.
C29_OnePumpPerSession ==
  [][/\ \A s1, s2 \in Sessions :
          (pump'[s1] \in {"cond", "write"} /\ pump'[s2] \in {"cond", "write"})
            => s1 = s2
     /\ \A s \in Sessions :
          (pump[s] = "write" /\ pump'[s] = "cond") => ffmpeg_proc = s]_vars

\* C30 (as claimed): when a stop_recording call that found the recorder
\* recording has returned a file or raised, no encoder process is running
\* with its input pipe open.
C30_StopClosesEncoder ==
  \A t \in SeqCallers :
    (pc[t] = "done" /\ op[t] = "stop" /\ (ret[t] # None \/ exc[t] # "none"))
      => \A p \in Sessions : ~(procs[p].state = "running" /\ procs[p].stdin)

\* C31: when stop_recording is invoked from two threads on the same active
\* session (the Stop button's worker and the window-close worker), only one
\* of them goes through the finalization steps: no two callers are past the
\* guard of stop_recording at once, and a caller that found the guard open
\* does not fail.
C31_StopFinalizesOnce ==
  /\ \A t, u \in Callers :
       (t # u /\ op[t] = "stop" /\ op[u] = "stop")
         => ~(pc[t] \in {"p_flag", "p_audio", "p_join", "p_write", "p_enc",
                         "p_wait", "p_merge", "p_unlink"}
              /\ pc[u] \in {"p_flag", "p_audio", "p_join", "p_write", "p_enc",
                            "p_wait", "p_merge", "p_unlink"})
  /\ \A t \in Callers :
       (op[t] = "stop" /\ pc[t] = "done")
         => exc[t] \in {"none", "WriteError", "MergeError"}

\* C32: under any interleaving of stop_preview and start_preview calls made
\* from different threads, at most one capture-loop thread is alive, and a
\* capture loop reads only from the camera handle that its own start_preview
\* opened (the loop of call k never reads while self._capture is a handle
\* opened by a later call).
C32_OneCaptureLoopOnItsOwnHandle ==
  /\ Cardinality({k \in Handles : VLoopAlive(k)}) <= 1
  /\ \A k \in Handles :
       vthr[k].state \in {"read", "deliver"} => v_capture \in {0, k}

\* The session a stop_recording call of the single caller stops: sessions
\* do not overlap, so it is the latest one.
Stopping(s) ==
  /\ nsess = s
  /\ \E t \in SeqCallers : op[t] = "stop" /\ pc[t] = "p_audio"

\* C33: under fair scheduling, with an encoder that exits once its input
\* pipe is closed and a muxer that terminates, every stop_recording call on
\* an active session eventually returns or raises, and the audio capture
\* thread and the frame pump thread of that session eventually terminate.
C33_StopTerminates ==
  /\ \A t \in SeqCallers :
       (op[t] = "stop" /\ pc[t] = "p_audio") ~> (pc[t] = "done")
  /\ \A s \in Sessions :
       Stopping(s) ~> (athr[s] \notin {"opening", "running", "appending"})
  /\ \A s \in Sessions :
       Stopping(s) ~> ~PumpAlive(s)

\* C34: for every session and every output directory name, the final path
\* stop_recording merges into and returns is the final path start_recording
\* returned for that session, and it lies in the session's output directory.
C34_StopReturnsStartFinalPath ==
  \A t \in SeqCallers :
    (op[t] = "stop" /\ pc[t] \in {"p_unlink", "done"} /\ loc[t].final # None)
      => /\ loc[t].final = sess[nsess].final
         /\ loc[t].final[1] = sess[nsess].video[1]

\* C35: two sessions started by the same recorder (start_recording has
\* returned for both) into the same output directory never use the same
\* intermediate or final file path, so that the merge of the later session
\* never writes over the final file of the earlier one.
C35_SessionsUseDistinctPaths ==
  \A s, r \in 1..nsess :
    (s # r /\ pump[s] # "none" /\ pump[r] # "none"
       /\ sess[s].video[1] = sess[r].video[1])
      => /\ sess[s].video # sess[r].video
         /\ sess[s].audio # sess[r].audio
         /\ sess[s].final # sess[r].final

\* C36: whenever the main loop of the window can dispatch an event, the
\* Start and Stop buttons are not both enabled, and the Start button is
\* enabled only if the recorder is neither recording nor finalizing a
\* session (also after a start_recording or a stop_recording that raised).
C36_ButtonsFollowRecorder ==
  AppIdle
    => /\ ~(btn_start = "normal" /\ btn_stop = "normal")
       /\ btn_start = "normal" => ~SessionActive

====
